---- MODULE Spec2Model ----
(***************************************************************************)
(* Model of the Groth16 verifier program of src/verifier/src/lib.rs:       *)
(* process_instruction and the five functions it is made of.  The program  *)
(* keeps no state between calls, so every specification below is one call *)
(* of one function on an input drawn from a bounded set:                   *)
(*   Spec          process_instruction on an instruction buffer            *)
(*   SpecPreparer  prepare_public_inputs on public inputs and a key        *)
(*   SpecVerifier  verify_proof on a proof, a prepared point and a key     *)
(* Byte slices are sequences of numbers 0..255 (index 1 is Rust index 0).  *)
(***************************************************************************)
EXTENDS Integers, Sequences, FiniteSets

VARIABLES
    pc,                \* "entry" before the call, "exit" after it returned
    instruction_data,  \* the buffer handed to process_instruction
    host,              \* the answer the host's pairing syscall gives
    proof,             \* parse_proof's outcome / verify_proof's argument
    public_inputs,     \* parse_public_inputs' outcome / the preparer's argument
    vk,                \* parse_verification_key's outcome / the key argument
    prepared_inputs,   \* prepare_public_inputs' outcome / verify_proof's argument
    result,            \* what the called function returned
    calls              \* the external curve primitives invoked, in order

vars == <<pc, instruction_data, host, proof, public_inputs, vk,
          prepared_inputs, result, calls>>

---------------------------------------------------------------------------
\* Program constants (widths and offsets of the wire format).

G1Len == 64
G2Len == 128
ScalarLen == 32
ProofLen == 256
VkPrefixLen == 448
PairingElemLen == G1Len + G2Len
PairingResLast == 31

\* Bounds of the model.

MaxLen == 900        \* longest patterned instruction buffer
MaxK == 1            \* most public inputs in a well-formed wire buffer
MaxInputs == 2       \* most public inputs handed to the preparer
MaxPoint == 2        \* G1 points 0..MaxPoint of the group are drawn
MaxScalar == 1       \* scalars 0..MaxScalar (and one two-byte scalar)
GroupOrder == 5      \* order of the cyclic group standing for G1

---------------------------------------------------------------------------
\* Result<T, ProgramError>, with the panic of an out-of-range slice or index
\* as a third outcome, and NotRun for a step the call never reached.

Ok(v) == [tag |-> "Ok", val |-> v]
Err(e) == [tag |-> "Err", val |-> e]
Panic == [tag |-> "Panic", val |-> "panic"]
NotRun == [tag |-> "NotRun", val |-> "none"]

InvalidInstructionData == "InvalidInstructionData"
Custom0 == "Custom(0)"

IsOk(r) == r.tag = "Ok"
IsErr(r, e) == r.tag = "Err" /\ r.val = e

---------------------------------------------------------------------------
\* Slices.

Min(a, b) == IF a < b THEN a ELSE b

\* data[a..b] is in range (otherwise Rust panics)
InBounds(data, a, b) == 0 <= a /\ a <= b /\ b <= Len(data)

\* data[a..b], for a range that is in bounds
Slice(data, a, b) == SubSeq(data, a + 1, b)

\* slice.chunks(n): consecutive chunks of n bytes, the last one possibly shorter
Chunks(s, n) ==
    [j \in 1..((Len(s) + n - 1) \div n) |->
        SubSeq(s, (j - 1) * n + 1, Min(j * n, Len(s)))]

\* chunks.map(|c| c.try_into().map_err(..)).collect::<Result<Vec<[u8; n]>, _>>()
CollectArrays(chunks, n) ==
    IF \E j \in 1..Len(chunks) : Len(chunks[j]) # n
    THEN Err(InvalidInstructionData)
    ELSE Ok(chunks)

---------------------------------------------------------------------------
\* The external alt_bn128 primitives.  G1 is modelled as the cyclic group
\* Z_GroupOrder: element g is encoded as the 64 bytes x = y = g (big-endian,
\* 32 bytes each), so the identity is the all-zero encoding, as on alt_bn128.

BE32(v) ==
    [i \in 1..ScalarLen |->
        IF i = ScalarLen THEN v % 256
        ELSE IF i = ScalarLen - 1 THEN (v \div 256) % 256
        ELSE 0]

G1Encode(g) == BE32(g) \o BE32(g)

\* p encodes a point of the group
G1Valid(p) ==
    /\ Len(p) = G1Len
    /\ \A i \in 1..30 : p[i] = 0 /\ p[32 + i] = 0
    /\ p[31] = p[63] /\ p[32] = p[64]
    /\ p[31] * 256 + p[32] < GroupOrder

\* the group element a valid encoding stands for
G1Decode(p) == p[31] * 256 + p[32]

\* a 32-byte big-endian scalar, reduced modulo the group order
RECURSIVE HornerMod(_, _, _)
HornerMod(s, i, acc) ==
    IF i > Len(s) THEN acc
    ELSE HornerMod(s, i + 1, (acc * 256 + s[i]) % GroupOrder)

ScalarMod(s) == HornerMod(s, 1, 0)

alt_bn128_multiplication(input) ==
    IF Len(input) # G1Len + ScalarLen THEN Err("AltBn128Error")
    ELSE LET p == SubSeq(input, 1, G1Len)
             s == ScalarMod(SubSeq(input, G1Len + 1, G1Len + ScalarLen))
         IN  IF ~G1Valid(p) THEN Err("AltBn128Error")
             ELSE Ok(G1Encode((G1Decode(p) * s) % GroupOrder))

alt_bn128_addition(input) ==
    IF Len(input) # 2 * G1Len THEN Err("AltBn128Error")
    ELSE LET p == SubSeq(input, 1, G1Len)
             q == SubSeq(input, G1Len + 1, 2 * G1Len)
         IN  IF ~G1Valid(p) \/ ~G1Valid(q) THEN Err("AltBn128Error")
             ELSE Ok(G1Encode((G1Decode(p) + G1Decode(q)) % GroupOrder))

\* The pairing check is a black box: the host answers ans (an error, or a
\* 32-byte result), after rejecting an operand buffer that is not a whole
\* number of G1/G2 pairs.
alt_bn128_pairing(input, ans) ==
    IF Len(input) % PairingElemLen # 0 THEN Err("AltBn128Error")
    ELSE ans

\* a G2 encoding (128 bytes), told apart by its tag g
G2Point(g) == [i \in 1..G2Len |-> IF i % 32 = 0 THEN g ELSE 0]

\* a pairing result whose byte 0 is first and byte 31 is last
PairingRes(first, last) ==
    [i \in 1..32 |-> IF i = 32 THEN last ELSE IF i = 1 THEN first ELSE 0]

PairingAnswers ==
    {Err("AltBn128Error"), Ok(PairingRes(0, 1)), Ok(PairingRes(0, 0)),
     Ok(PairingRes(0, 2)), Ok(PairingRes(1, 0))}

---------------------------------------------------------------------------
\* The Layout Parser.

\* parse_proof with the length guard covering proof_a and proof_b only
parse_proof_short(data) ==
    IF Len(data) < 192 THEN Err(InvalidInstructionData)
    ELSE IF \/ ~InBounds(data, 0, 64)
            \/ ~InBounds(data, 64, 192)
            \/ ~InBounds(data, 192, 256) THEN Panic
    ELSE Ok([proof_a |-> Slice(data, 0, 64),
             proof_b |-> Slice(data, 64, 192),
             proof_c |-> Slice(data, 192, 256)])

parse_proof(data) ==
    IF Len(data) < ProofLen THEN Err(InvalidInstructionData)
    ELSE IF \/ ~InBounds(data, 0, 64)
            \/ ~InBounds(data, 64, 192)
            \/ ~InBounds(data, 192, 256) THEN Panic
    ELSE Ok([proof_a |-> Slice(data, 0, 64),
             proof_b |-> Slice(data, 64, 192),
             proof_c |-> Slice(data, 192, 256)])

\* parse_public_inputs with chunks_exact: a trailing partial chunk is dropped
parse_public_inputs_exact(data) ==
    IF Len(data) < ProofLen THEN Err(InvalidInstructionData)
    ELSE IF ~InBounds(data, ProofLen, Len(data)) THEN Panic
    ELSE Ok([j \in 1..((Len(data) - ProofLen) \div ScalarLen) |->
                Slice(data, ProofLen + (j - 1) * ScalarLen, ProofLen + j * ScalarLen)])

parse_public_inputs(data) ==
    IF Len(data) < ProofLen THEN Err(InvalidInstructionData)
    ELSE IF ~InBounds(data, ProofLen, Len(data)) THEN Panic
    ELSE CollectArrays(Chunks(Slice(data, ProofLen, Len(data)), ScalarLen),
                       ScalarLen)

\* vk_start taken right after the proof, the public inputs forgotten
vk_start_after_proof(data) == ProofLen

vk_start(data) == ProofLen + ((Len(data) - ProofLen) \div ScalarLen) * ScalarLen

parse_verification_key(data) ==
    IF ~InBounds(data, ProofLen, Len(data)) THEN Panic
    ELSE LET s == vk_start(data) IN
         IF Len(data) < s + VkPrefixLen THEN Err(InvalidInstructionData)
         ELSE IF ~InBounds(data, s, s + VkPrefixLen) THEN Panic
         ELSE LET ic == CollectArrays(
                            Chunks(Slice(data, s + VkPrefixLen, Len(data)), G1Len),
                            G1Len)
              IN  IF ~IsOk(ic) THEN ic
                  ELSE Ok([vk_alpha_g1 |-> Slice(data, s, s + 64),
                           vk_beta_g2 |-> Slice(data, s + 64, s + 192),
                           vk_gamma_g2 |-> Slice(data, s + 192, s + 320),
                           vk_delta_g2 |-> Slice(data, s + 320, s + 448),
                           vk_ic |-> ic.val])

---------------------------------------------------------------------------
\* The Input Preparer.  Functions that call external primitives return
\* [res |-> their result, calls |-> the primitives invoked, in order].

Call(op, input, out) == [op |-> op, input |-> input, out |-> out]

\* the input at index i paired with the IC point of the same index
IcIndexSame(i) == i

\* the IC point paired with the input at (0-based) index i
IcIndex(i) == i + 1

\* the loop body from (0-based) index i on, with accumulator acc
RECURSIVE PrepareLoop(_, _, _, _, _)
PrepareLoop(inputs, key, i, acc, log) ==
    IF i >= Len(inputs) THEN [res |-> Ok(acc), calls |-> log]
    ELSE IF IcIndex(i) >= Len(key.vk_ic) THEN [res |-> Panic, calls |-> log]
    ELSE LET mulIn == key.vk_ic[IcIndex(i) + 1] \o inputs[i + 1]
             mul == alt_bn128_multiplication(mulIn)
             log1 == Append(log, Call("mul", mulIn, mul))
         IN  IF ~IsOk(mul)
             THEN [res |-> Err(InvalidInstructionData), calls |-> log1]
             ELSE LET addIn == mul.val \o acc
                      add == alt_bn128_addition(addIn)
                      log2 == Append(log1, Call("add", addIn, add))
                  IN  IF ~IsOk(add) \/ Len(add.val) # G1Len
                      THEN [res |-> Err(InvalidInstructionData), calls |-> log2]
                      ELSE PrepareLoop(inputs, key, i + 1, add.val, log2)

\* prepare_public_inputs without the count check
prepare_public_inputs_unchecked(inputs, key) ==
    IF Len(key.vk_ic) = 0 THEN [res |-> Panic, calls |-> <<>>]
    ELSE PrepareLoop(inputs, key, 0, key.vk_ic[1], <<>>)

prepare_public_inputs(inputs, key) ==
    IF Len(inputs) + 1 # Len(key.vk_ic)
    THEN [res |-> Err(InvalidInstructionData), calls |-> <<>>]
    ELSE IF Len(key.vk_ic) = 0 THEN [res |-> Panic, calls |-> <<>>]
    ELSE PrepareLoop(inputs, key, 0, key.vk_ic[1], <<>>)

---------------------------------------------------------------------------
\* The Pairing Verifier.

\* pairing_input with vk_gamma_g2 and vk_delta_g2 swapped
pairing_input_swapped(p, prepared, key) ==
    p.proof_a \o p.proof_b \o prepared \o key.vk_delta_g2 \o
    p.proof_c \o key.vk_gamma_g2 \o key.vk_alpha_g1 \o key.vk_beta_g2

pairing_input(p, prepared, key) ==
    p.proof_a \o p.proof_b \o prepared \o key.vk_gamma_g2 \o
    p.proof_c \o key.vk_delta_g2 \o key.vk_alpha_g1 \o key.vk_beta_g2

\* verify_proof reading the first byte of the pairing result, not the last
verify_proof_first_byte(p, prepared, key, ans) ==
    LET input == pairing_input(p, prepared, key)
        pairing_res == alt_bn128_pairing(input, ans)
        log == <<Call("pairing", input, pairing_res)>>
    IN  IF ~IsOk(pairing_res)
        THEN [res |-> Err(InvalidInstructionData), calls |-> log]
        ELSE IF pairing_res.val[1] # 1
        THEN [res |-> Err(Custom0), calls |-> log]
        ELSE [res |-> Ok(<<>>), calls |-> log]

verify_proof(p, prepared, key, ans) ==
    LET input == pairing_input(p, prepared, key)
        pairing_res == alt_bn128_pairing(input, ans)
        log == <<Call("pairing", input, pairing_res)>>
    IN  IF ~IsOk(pairing_res)
        THEN [res |-> Err(InvalidInstructionData), calls |-> log]
        ELSE IF pairing_res.val[PairingResLast + 1] # 1
        THEN [res |-> Err(Custom0), calls |-> log]
        ELSE [res |-> Ok(<<>>), calls |-> log]

---------------------------------------------------------------------------
\* The entry point: the outcome of every step the call reached.

Outcome(res, p, pi, key, prep, log) ==
    [result |-> res, proof |-> p, public_inputs |-> pi, vk |-> key,
     prepared_inputs |-> prep, calls |-> log]

process_instruction(data, ans) ==
    LET p == parse_proof(data) IN
    IF ~IsOk(p) THEN Outcome(p, p, NotRun, NotRun, NotRun, <<>>)
    ELSE LET pi == parse_public_inputs(data) IN
    IF ~IsOk(pi) THEN Outcome(pi, p, pi, NotRun, NotRun, <<>>)
    ELSE LET key == parse_verification_key(data) IN
    IF ~IsOk(key) THEN Outcome(key, p, pi, key, NotRun, <<>>)
    ELSE LET prep == prepare_public_inputs(pi.val, key.val) IN
    IF ~IsOk(prep.res) THEN Outcome(prep.res, p, pi, key, prep.res, prep.calls)
    ELSE LET v == verify_proof(p.val, prep.res.val, key.val, ans) IN
         Outcome(v.res, p, pi, key, prep.res, prep.calls \o v.calls)

---------------------------------------------------------------------------
\* The inputs the calls are made on.

PatternByte(i) == (i + i \div 256) % 256

\* the buffer of n bytes whose byte at index i is PatternByte(i)
PatternBuffer(n) == [i \in 1..n |-> PatternByte(i - 1)]

\* the instruction data of the repository's test: 23u32 and 19u32, little-endian
TestVector == <<23, 0, 0, 0, 19, 0, 0, 0>>

RECURSIVE Concat(_)
Concat(ss) == IF ss = <<>> THEN <<>> ELSE Head(ss) \o Concat(Tail(ss))

\* the length of a buffer laid out as in the wire format with k public inputs
WireLen(k) == ProofLen + ScalarLen * k + VkPrefixLen + G1Len * (k + 1)

\* a buffer laid out as in the wire format: proof, k public inputs, the key's
\* fixed prefix, k+1 IC points, every G1 field a valid point of the group
WireBuffer(k) ==
    G1Encode(1) \o G2Point(1) \o G1Encode(2)
    \o Concat([j \in 1..k |-> BE32(j)])
    \o G1Encode(1) \o G2Point(2) \o G2Point(3) \o G2Point(4)
    \o Concat([j \in 1..(k + 1) |-> G1Encode(j % GroupOrder)])

Buffers ==
    {PatternBuffer(n) : n \in 0..MaxLen}
    \cup {WireBuffer(k) : k \in 0..MaxK}
    \cup {TestVector}

SeqsUpTo(S, n) == UNION {[1..m -> S] : m \in 0..n}

\* a G1 encoding that is no point of the group (x # y)
OffCurve == BE32(1) \o BE32(2)

Scalars == {BE32(s) : s \in 0..MaxScalar} \cup {BE32(256 + 1)}
Points == {G1Encode(g) : g \in 0..MaxPoint} \cup {OffCurve}

Key(ic) ==
    [vk_alpha_g1 |-> G1Encode(1), vk_beta_g2 |-> G2Point(1),
     vk_gamma_g2 |-> G2Point(2), vk_delta_g2 |-> G2Point(3), vk_ic |-> ic]

---------------------------------------------------------------------------
\* Spec: one call of process_instruction.

Init ==
    /\ pc = "entry"
    /\ instruction_data \in Buffers
    /\ host \in PairingAnswers
    /\ proof = NotRun
    /\ public_inputs = NotRun
    /\ vk = NotRun
    /\ prepared_inputs = NotRun
    /\ result = NotRun
    /\ calls = <<>>

ProcessInstruction ==
    /\ pc = "entry"
    /\ LET o == process_instruction(instruction_data, host) IN
        /\ proof' = o.proof
        /\ public_inputs' = o.public_inputs
        /\ vk' = o.vk
        /\ prepared_inputs' = o.prepared_inputs
        /\ result' = o.result
        /\ calls' = o.calls
    /\ pc' = "exit"
    /\ UNCHANGED <<instruction_data, host>>

Next == ProcessInstruction

Spec == Init /\ [][Next]_vars

---------------------------------------------------------------------------
\* SpecPreparer: one call of prepare_public_inputs.

InitPreparer ==
    /\ pc = "entry"
    /\ instruction_data = <<>>
    /\ host = NotRun
    /\ proof = NotRun
    /\ public_inputs \in SeqsUpTo(Scalars, MaxInputs)
    /\ vk \in {Key(ic) : ic \in SeqsUpTo(Points, MaxInputs + 1)}
    /\ prepared_inputs = NotRun
    /\ result = NotRun
    /\ calls = <<>>

PreparePublicInputs ==
    /\ pc = "entry"
    /\ LET o == prepare_public_inputs(public_inputs, vk) IN
        /\ prepared_inputs' = o.res
        /\ result' = o.res
        /\ calls' = o.calls
    /\ pc' = "exit"
    /\ UNCHANGED <<instruction_data, host, proof, public_inputs, vk>>

NextPreparer == PreparePublicInputs

SpecPreparer == InitPreparer /\ [][NextPreparer]_vars

---------------------------------------------------------------------------
\* SpecVerifier: one call of verify_proof.

Proofs ==
    {[proof_a |-> G1Encode(a), proof_b |-> G2Point(b), proof_c |-> G1Encode(c)] :
        a \in 1..2, b \in 4..5, c \in 3..4}

VerifierKeys ==
    {[vk_alpha_g1 |-> G1Encode(al), vk_beta_g2 |-> G2Point(be),
      vk_gamma_g2 |-> G2Point(ga), vk_delta_g2 |-> G2Point(de),
      vk_ic |-> <<G1Encode(1)>>] :
        al \in {1, 4}, be \in {1, 4}, ga \in 2..3, de \in {3, 5}}

InitVerifier ==
    /\ pc = "entry"
    /\ instruction_data = <<>>
    /\ host \in PairingAnswers
    /\ proof \in Proofs
    /\ public_inputs = NotRun
    /\ vk \in VerifierKeys
    /\ prepared_inputs \in {G1Encode(g) : g \in 0..MaxPoint}
    /\ result = NotRun
    /\ calls = <<>>

VerifyProof ==
    /\ pc = "entry"
    /\ LET o == verify_proof(proof, prepared_inputs, vk, host) IN
        /\ result' = o.res
        /\ calls' = o.calls
    /\ pc' = "exit"
    /\ UNCHANGED <<instruction_data, host, proof, public_inputs, vk,
                   prepared_inputs>>

NextVerifier == VerifyProof

SpecVerifier == InitVerifier /\ [][NextVerifier]_vars

---------------------------------------------------------------------------
\* Properties.

Returned == pc = "exit"
DataLen == Len(instruction_data)
AllCallsOk == \A i \in 1..Len(calls) : IsOk(calls[i].out)

\* the buffer has the length of the wire format with k public inputs
IsWireLayout(k) == DataLen = WireLen(k)

\* C1: a buffer laid out as in the wire format (proof, k public inputs, key
\* prefix, k+1 IC points) on which every external multiplication and addition
\* succeeds and the pairing answers with last byte 1 is accepted.
C1_WireFormatAccepted ==
    (/\ Returned
     /\ \E k \in 0..MaxK : IsWireLayout(k)
     /\ AllCallsOk
     /\ IsOk(host) /\ host.val[PairingResLast + 1] = 1)
    => IsOk(result)

\* C2: verify_proof succeeds exactly when the pairing call succeeds with last
\* byte 1, returns Custom(0) exactly when it succeeds with another last byte,
\* and returns InvalidInstructionData exactly when the pairing call fails;
\* the two error kinds are distinct.
C2_VerifyOutcome ==
    Returned =>
        /\ Len(calls) >= 1
        /\ LET out == calls[1].out IN
            /\ IsOk(result) <=> (IsOk(out) /\ out.val[PairingResLast + 1] = 1)
            /\ IsErr(result, Custom0) <=>
                   (IsOk(out) /\ out.val[PairingResLast + 1] # 1)
            /\ IsErr(result, InvalidInstructionData) <=> ~IsOk(out)
        /\ Custom0 # InvalidInstructionData

C2_Witness ==
    /\ Returned
    /\ IsErr(result, Custom0)
    /\ IsOk(host) /\ host.val[PairingResLast + 1] = 2

IcRegionAligned ==
    LET s == 256 + ((DataLen - 256) \div 32) * 32 IN
    DataLen >= s + 448 /\ (DataLen - s - 448) % 64 = 0

\* C4: on a buffer of at least 256 bytes, a public-input region (the bytes
\* after the proof) that is no multiple of 32 bytes makes parse_public_inputs
\* fail with InvalidInstructionData, an IC region that is no whole number of
\* 64-byte chunks makes parsing fail with InvalidInstructionData, and a parse
\* that succeeds accounts for every byte of its region (nothing dropped or
\* padded).
C4_MisalignedRejected ==
    (Returned /\ DataLen >= 256) =>
        /\ (DataLen - 256) % 32 # 0 =>
               /\ IsErr(public_inputs, InvalidInstructionData)
               /\ IsErr(result, InvalidInstructionData)
        /\ ~IcRegionAligned =>
               /\ ~IsOk(vk)
               /\ IsErr(result, InvalidInstructionData)
        /\ IsOk(public_inputs) =>
               /\ Len(public_inputs.val) * 32 = DataLen - 256
               /\ \A j \in 1..Len(public_inputs.val) :
                      Len(public_inputs.val[j]) = 32
        /\ IsOk(vk) => \A j \in 1..Len(vk.val.vk_ic) : Len(vk.val.vk_ic[j]) = 64

C4_Witness ==
    /\ Returned
    /\ DataLen = 256 + 32 + 7
    /\ IsOk(proof)
    /\ IsErr(public_inputs, InvalidInstructionData)
    /\ IsErr(result, InvalidInstructionData)

\* C5: with ic.len() # public_inputs.len() + 1 (an empty ic included)
\* prepare_public_inputs fails with InvalidInstructionData, no external
\* primitive called and no panic.
C5_CountMismatchRejected ==
    (Returned /\ Len(vk.vk_ic) # Len(public_inputs) + 1) =>
        /\ IsErr(result, InvalidInstructionData)
        /\ calls = <<>>

C5_Witness ==
    /\ Returned
    /\ vk.vk_ic = <<>>
    /\ Len(public_inputs) = 1
    /\ IsErr(result, InvalidInstructionData)

\* the value of a big-endian scalar below 2^16
BEValue(s) == s[31] * 256 + s[32]

\* ic[0] + sum of public_inputs[i] * ic[i+1] over the first n inputs, in the group
RECURSIVE RefSum(_, _, _)
RefSum(inputs, ic, n) ==
    IF n = 0 THEN G1Decode(ic[1])
    ELSE (RefSum(inputs, ic, n - 1) + BEValue(inputs[n]) * G1Decode(ic[n + 1]))
             % GroupOrder

\* C6: with k inputs, k+1 IC points and every external call succeeding,
\* prepare_public_inputs returns ic[0] + sum_i public_inputs[i] * ic[i+1];
\* with no input it returns ic[0] itself and calls nothing.
C6_WeightedSum ==
    (/\ Returned
     /\ Len(vk.vk_ic) = Len(public_inputs) + 1
     /\ AllCallsOk)
    => /\ IsOk(result)
       /\ Len(public_inputs) = 0 => (result.val = vk.vk_ic[1] /\ calls = <<>>)
       /\ Len(public_inputs) > 0 =>
              /\ G1Valid(result.val)
              /\ G1Decode(result.val) =
                     RefSum(public_inputs, vk.vk_ic, Len(public_inputs))

C6_Witness ==
    /\ Returned
    /\ IsOk(result)
    /\ Len(public_inputs) = 2
    /\ Len(calls) = 4
    /\ public_inputs[1] # public_inputs[2]
    /\ vk.vk_ic[1] # vk.vk_ic[2]
    /\ vk.vk_ic[2] # vk.vk_ic[3]
    /\ BEValue(public_inputs[1]) % GroupOrder # 0
    /\ G1Decode(vk.vk_ic[3]) # 0

\* C7: verify_proof calls the pairing once, on the 768 bytes proof.a, proof.b,
\* prepared_inputs, vk.gamma_g2, proof.c, vk.delta_g2, vk.alpha_g1, vk.beta_g2
\* in this order.
C7_PairingOperands ==
    Returned =>
        /\ Len(calls) = 1
        /\ calls[1].op = "pairing"
        /\ LET input == calls[1].input IN
            /\ Len(input) = 768
            /\ Slice(input, 0, 64) = proof.proof_a
            /\ Slice(input, 64, 192) = proof.proof_b
            /\ Slice(input, 192, 256) = prepared_inputs
            /\ Slice(input, 256, 384) = vk.vk_gamma_g2
            /\ Slice(input, 384, 448) = proof.proof_c
            /\ Slice(input, 448, 576) = vk.vk_delta_g2
            /\ Slice(input, 576, 640) = vk.vk_alpha_g1
            /\ Slice(input, 640, 768) = vk.vk_beta_g2

C7_Witness ==
    /\ Returned
    /\ Len(calls) = 1
    /\ Cardinality({proof.proof_a, prepared_inputs, proof.proof_c,
                    vk.vk_alpha_g1}) = 4
    /\ Cardinality({proof.proof_b, vk.vk_gamma_g2, vk.vk_delta_g2,
                    vk.vk_beta_g2}) = 4

\* C8: on a buffer laid out as in the wire format with k public inputs the
\* parser yields exactly k scalars, the 32-byte chunks of bytes
\* [256, 256+32k), and nothing of the verification-key region.
C8_WireInputsExact ==
    \A k \in 0..MaxK :
        (Returned /\ IsWireLayout(k)) =>
            /\ IsOk(public_inputs)
            /\ public_inputs.val =
                   [j \in 1..k |->
                       Slice(instruction_data, 256 + 32 * (j - 1), 256 + 32 * j)]

\* C9: the call on the 8 bytes of two little-endian u32 succeeds.
C9_TestVectorSucceeds ==
    (Returned /\ instruction_data = TestVector) => IsOk(result)

====
